---- MODULE Spec2Model ----
(***************************************************************************)
(* Model of the battle API of the monster/battle service:                  *)
(*   src/src/api/battle_apis.rs          (create_battle handler)           *)
(*   src/src/repository/battle_repository.rs (battle table access)         *)
(*   src/src/models/{battle,monster}.rs  (row types)                       *)
(* Each in-flight POST /battles request is a process; every store access   *)
(* and every attack of the battle loop is one step of it.                  *)
(* Rows carry the fields the handler reads or writes: name, image_url and  *)
(* the created_at/updated_at timestamps are left out.  db_calls and        *)
(* attacks record what a request did; the handler never reads them.        *)
(***************************************************************************)
EXTENDS Integers, Sequences, FiniteSets, TLC

\* ---------------------------------------------------------------- bounds
MaxAttack == 2
MaxDefense == 1
MaxHp == 2

\* ------------------------------------------------------- program constants
\* Monster.attack, defense, hp and speed are i32.
MaxI32 == 2147483647
MinI32 == -MaxI32 - 1

\* Requests handled at the same time by the actix workers.
Procs == {1, 2}

\* Identifier strings.  "m1" and "m2" are the ids of the stored monsters,
\* NilUuid is Uuid::default().to_string() (well formed, no row has it),
\* "bad" is not a UUID at all.
NilUuid == "00000000-0000-0000-0000-000000000000"
StoredIds == {"m1", "m2"}
WellFormedIds == StoredIds \cup {NilUuid}
RequestIds == WellFormedIds \cup {"bad"}

\* Ids handed out by uuid::Uuid::new_v4() in the battle repository, in order.
GenIds == <<"b1", "b2", "b3">>

None == [none |-> TRUE]

\* Uuid::parse_str(s).is_ok()
IsUuid(s) == s \in WellFormedIds \cup {"c1"} \cup {GenIds[i] : i \in 1..Len(GenIds)}

\* --------------------------------------------------------- i32 arithmetic
\* Every value below is an i32; no intermediate result leaves the i32 range.
\* x - y on i32 overflows (the exact difference is outside [MinI32, MaxI32])
SubOverflows(x, y) ==
    IF y > 0 THEN x < MinI32 + y ELSE x > MaxI32 + y
\* x - y on i32 in a build without overflow checks: the difference modulo 2^32
WrappingSub(x, y) ==
    IF ~SubOverflows(x, y) THEN x - y
    ELSE IF y > 0 THEN (x - MinI32) + (MaxI32 - (y - 1))
    ELSE (x - MaxI32 - 1) + (MinI32 - y)

\* Mutant of Damage: the floor of 1 is missing.
Damage_NoFloor(attack, defense) == WrappingSub(attack, defense)

\* match attack - defense { diff if diff <= 0 => 1, diff => diff }
Damage(attack, defense) ==
    LET diff == WrappingSub(attack, defense)
    IN  IF diff <= 0 THEN 1 ELSE diff

\* ------------------------------------------------------------------ state
VARIABLES
    monsters,         \* monsters table: id -> row
    battles,          \* battles table: set of rows
    uuids_issued,     \* number of ids new_v4() has produced
    active,           \* the requests that the clients send
    overflow_checks,  \* build profile: "on" (overflow panics), "off" (it wraps)
    pc,               \* position of each request in create_battle
    request,          \* JSON body received
    new_battle,       \* web::Json<Battle>, mutable
    monster_a,        \* let monster_a
    monster_b,        \* let monster_b
    first_monster,    \* let mut first_monster
    second_monster,   \* let mut second_monster
    path_id,          \* id: web::Path<String> of a delete request
    response,         \* HttpResponse returned
    db_calls,         \* store accesses made by the request, in order
    attacks           \* attacks made in the battle loop, in order

vars == <<monsters, battles, uuids_issued, active, overflow_checks, pc, request,
          path_id, new_battle, monster_a, monster_b, first_monster, second_monster,
          response, db_calls, attacks>>

store == <<monsters, battles, uuids_issued, active>>
locals == <<pc, request, path_id, new_battle, monster_a, monster_b, first_monster,
            second_monster, response, db_calls, attacks>>

\* ------------------------------------------------------------- row types
AttackVals == 0..MaxAttack
DefenseVals == {MinI32} \cup (0..MaxDefense)
HpVals == (-1)..MaxHp
SpeedVals == {0, 1}

Stats == [attack : AttackVals, defense : DefenseVals, hp : HpVals, speed : SpeedVals]
Monster(id, s) == [id |-> id, attack |-> s.attack, defense |-> s.defense,
                   hp |-> s.hp, speed |-> s.speed]

\* JSON bodies accepted by web::Json<Battle>: monster_a and monster_b are
\* required strings, id and winner default to "" and may be sent by the client.
ClientFields == {[id |-> "", winner |-> ""], [id |-> "c1", winner |-> "m1"]}
RequestBodies == {[id |-> c.id, monster_a |-> a, monster_b |-> b, winner |-> c.winner] :
                    c \in ClientFields, a \in RequestIds, b \in RequestIds}

\* ------------------------------------------------------------ repository
\* monster_repository::get_monster_by_id
get_monster_by_id(id) == IF id \in DOMAIN monsters THEN monsters[id] ELSE None

\* uuid::Uuid::new_v4().to_string()
new_v4 == GenIds[uuids_issued + 1]

\* battle_repository::create_battle: Battle { id: new_v4, ..battle }
StoredBattle(battle) == [battle EXCEPT !.id = new_v4]

\* ------------------------------------------------------------ responses
NotFound(msg) == [status |-> "NotFound", body |-> msg]
Created(battle) == [status |-> "Created", body |-> battle]

\* ----------------------------------------------------------- turn order
\* Mutant of TurnOrder: equal speeds are not broken by attack.
TurnOrder_SpeedOnly(a, b) ==
    IF a.speed >= b.speed THEN <<a, b>> ELSE <<b, a>>

\* Mutant of TurnOrder: on equal speed and equal attack monster_a goes first.
TurnOrder_TieToA(a, b) ==
    IF a.speed > b.speed THEN <<a, b>>
    ELSE IF a.speed < b.speed THEN <<b, a>>
    ELSE IF a.attack >= b.attack THEN <<a, b>>
    ELSE <<b, a>>

\* //sets turn order: (first_monster, second_monster)
TurnOrder(a, b) ==
    IF a.speed > b.speed THEN <<a, b>>
    ELSE IF a.speed < b.speed THEN <<b, a>>
    ELSE IF a.attack > b.attack THEN <<a, b>>
    ELSE <<b, a>>

\* The handler's battle run alone on two rows: the winner field that
\* create_battle hands to the repository, given the winner field of the body.
RECURSIVE BattleLoop(_, _, _)
BattleLoop(first, second, winner) ==
    IF first.hp > 0 /\ second.hp > 0
    THEN LET second_hp == WrappingSub(second.hp, Damage(first.attack, second.defense))
             first_hp == WrappingSub(first.hp, Damage(second.attack, first.defense))
         IN  IF second_hp <= 0 THEN first.id
             ELSE IF first_hp <= 0 THEN second.id
             ELSE BattleLoop([first EXCEPT !.hp = first_hp],
                             [second EXCEPT !.hp = second_hp], winner)
    ELSE winner

ResolveAlone(a, b, winner) ==
    LET o == TurnOrder(a, b) IN BattleLoop(o[1], o[2], winner)

\* ------------------------------------------------------------- handler
\* The JSON body is deserialised into new_battle and the handler starts.
Receive(p) ==
    /\ p \in active
    /\ pc[p] = "idle"
    /\ \E body \in RequestBodies :
         /\ request' = [request EXCEPT ![p] = body]
         /\ new_battle' = [new_battle EXCEPT ![p] = body]
    /\ pc' = [pc EXCEPT ![p] = "validate"]
    /\ UNCHANGED <<store, overflow_checks, path_id, monster_a, monster_b, first_monster, second_monster,
                   response, db_calls, attacks>>

\* Mutant of ValidateFormats: only monster_a is checked.
ValidateFormats_OnlyA(p) ==
    /\ pc[p] = "validate"
    /\ IF ~IsUuid(new_battle[p].monster_a)
       THEN /\ response' = [response EXCEPT ![p] = NotFound("Monster a not found")]
            /\ pc' = [pc EXCEPT ![p] = "done"]
       ELSE /\ pc' = [pc EXCEPT ![p] = "get_a"]
            /\ UNCHANGED response
    /\ UNCHANGED <<store, overflow_checks, path_id, request, new_battle, monster_a, monster_b, first_monster,
                   second_monster, db_calls, attacks>>

\* //validate formats
ValidateFormats(p) ==
    /\ pc[p] = "validate"
    /\ IF ~IsUuid(new_battle[p].monster_a)
       THEN /\ response' = [response EXCEPT ![p] = NotFound("Monster a not found")]
            /\ pc' = [pc EXCEPT ![p] = "done"]
       ELSE IF ~IsUuid(new_battle[p].monster_b)
       THEN /\ response' = [response EXCEPT ![p] = NotFound("Monster b not found")]
            /\ pc' = [pc EXCEPT ![p] = "done"]
       ELSE /\ pc' = [pc EXCEPT ![p] = "get_a"]
            /\ UNCHANGED response
    /\ UNCHANGED <<store, overflow_checks, path_id, request, new_battle, monster_a, monster_b, first_monster,
                   second_monster, db_calls, attacks>>

\* //validate if exist: let monster_a = match get_monster_by_id(..monster_a)
GetMonsterA(p) ==
    /\ pc[p] = "get_a"
    /\ db_calls' = [db_calls EXCEPT ![p] = Append(@, "get_monster")]
    /\ LET m == get_monster_by_id(new_battle[p].monster_a)
       IN  IF m = None
           THEN /\ response' = [response EXCEPT ![p] = NotFound("Monster a not found")]
                /\ pc' = [pc EXCEPT ![p] = "done"]
                /\ UNCHANGED monster_a
           ELSE /\ monster_a' = [monster_a EXCEPT ![p] = m]
                /\ pc' = [pc EXCEPT ![p] = "get_b"]
                /\ UNCHANGED response
    /\ UNCHANGED <<store, overflow_checks, path_id, request, new_battle, monster_b, first_monster,
                   second_monster, attacks>>

\* Mutant of GetMonsterB: the lookup is made with monster_a's id.
GetMonsterB_LooksUpA(p) ==
    /\ pc[p] = "get_b"
    /\ db_calls' = [db_calls EXCEPT ![p] = Append(@, "get_monster")]
    /\ monster_b' = [monster_b EXCEPT ![p] = get_monster_by_id(new_battle[p].monster_a)]
    /\ pc' = [pc EXCEPT ![p] = "order"]
    /\ UNCHANGED <<store, overflow_checks, path_id, request, new_battle, monster_a, first_monster,
                   second_monster, response, attacks>>

\* let monster_b = match get_monster_by_id(..monster_b)
GetMonsterB(p) ==
    /\ pc[p] = "get_b"
    /\ db_calls' = [db_calls EXCEPT ![p] = Append(@, "get_monster")]
    /\ LET m == get_monster_by_id(new_battle[p].monster_b)
       IN  IF m = None
           THEN /\ response' = [response EXCEPT ![p] = NotFound("Monster b not found")]
                /\ pc' = [pc EXCEPT ![p] = "done"]
                /\ UNCHANGED monster_b
           ELSE /\ monster_b' = [monster_b EXCEPT ![p] = m]
                /\ pc' = [pc EXCEPT ![p] = "order"]
                /\ UNCHANGED response
    /\ UNCHANGED <<store, overflow_checks, path_id, request, new_battle, monster_a, first_monster,
                   second_monster, attacks>>

\* Mutant of SetTurnOrder: the two mutable copies are shared by all requests.
SetTurnOrder_SharedCopies(p) ==
    /\ pc[p] = "order"
    /\ LET o == TurnOrder(monster_a[p], monster_b[p])
       IN  /\ first_monster' = [q \in Procs |-> o[1]]
           /\ second_monster' = [q \in Procs |-> o[2]]
    /\ pc' = [pc EXCEPT ![p] = "loop"]
    /\ UNCHANGED <<store, overflow_checks, path_id, request, new_battle, monster_a, monster_b, response,
                   db_calls, attacks>>

\* let (mut first_monster, mut second_monster) = ...
SetTurnOrder(p) ==
    /\ pc[p] = "order"
    /\ LET o == TurnOrder(monster_a[p], monster_b[p])
       IN  /\ first_monster' = [first_monster EXCEPT ![p] = o[1]]
           /\ second_monster' = [second_monster EXCEPT ![p] = o[2]]
    /\ pc' = [pc EXCEPT ![p] = "loop"]
    /\ UNCHANGED <<store, overflow_checks, path_id, request, new_battle, monster_a, monster_b, response,
                   db_calls, attacks>>

\* while first_monster.hp > 0 && second_monster.hp > 0
LoopTest(p) ==
    /\ pc[p] = "loop"
    /\ pc' = [pc EXCEPT ![p] =
                IF first_monster[p].hp > 0 /\ second_monster[p].hp > 0
                THEN "first_attack" ELSE "save"]
    /\ UNCHANGED <<store, overflow_checks, path_id, request, new_battle, monster_a, monster_b, first_monster,
                   second_monster, response, db_calls, attacks>>

\* An i32 subtraction overflowed in a build with overflow checks (the debug
\* profile): the handler panics with "attempt to subtract with overflow"; no
\* response is built and nothing is saved.
Panic(p) ==
    /\ pc' = [pc EXCEPT ![p] = "panicked"]
    /\ UNCHANGED <<store, path_id, request, new_battle, monster_a, monster_b, first_monster,
                   second_monster, response, db_calls, attacks>>

\* The two subtractions of one attack; either overflows
AttackOverflows(attacker, target) ==
    \/ SubOverflows(attacker.attack, target.defense)
    \/ SubOverflows(target.hp, Damage(attacker.attack, target.defense))

\* target.hp = target.hp - damage
HpAfter(attacker, target) ==
    WrappingSub(target.hp, Damage(attacker.attack, target.defense))

\* Mutant of FirstHit: the lowered hp is also written to the monsters table.
FirstHit_WritesBack(p) ==
    LET hp == HpAfter(first_monster[p], second_monster[p])
    IN  /\ second_monster' = [second_monster EXCEPT ![p].hp = hp]
        /\ monsters' = [monsters EXCEPT ![second_monster[p].id].hp = hp]
        /\ attacks' = [attacks EXCEPT ![p] = Append(@, "first")]
        /\ IF hp <= 0
           THEN /\ new_battle' = [new_battle EXCEPT ![p].winner = first_monster[p].id]
                /\ pc' = [pc EXCEPT ![p] = "save"]
           ELSE /\ pc' = [pc EXCEPT ![p] = "second_attack"]
                /\ UNCHANGED new_battle
        /\ UNCHANGED <<battles, uuids_issued, active, path_id, request, monster_a, monster_b,
                       first_monster, response, db_calls>>

\* Mutant of FirstHit: the battle ends only when the target's hp is below 0.
FirstHit_EndsBelowZero(p) ==
    LET hp == HpAfter(first_monster[p], second_monster[p])
    IN  /\ second_monster' = [second_monster EXCEPT ![p].hp = hp]
        /\ attacks' = [attacks EXCEPT ![p] = Append(@, "first")]
        /\ IF hp < 0
           THEN /\ new_battle' = [new_battle EXCEPT ![p].winner = first_monster[p].id]
                /\ pc' = [pc EXCEPT ![p] = "save"]
           ELSE /\ pc' = [pc EXCEPT ![p] = "second_attack"]
                /\ UNCHANGED new_battle
        /\ UNCHANGED <<store, path_id, request, monster_a, monster_b, first_monster,
                       response, db_calls>>

\* //first monster attack
\* second_monster.hp = second_monster.hp - damage; if second_monster.hp <= 0 {..}
FirstHit(p) ==
    LET hp == HpAfter(first_monster[p], second_monster[p])
    IN  /\ second_monster' = [second_monster EXCEPT ![p].hp = hp]
        /\ attacks' = [attacks EXCEPT ![p] = Append(@, "first")]
        /\ IF hp <= 0
           THEN /\ new_battle' = [new_battle EXCEPT ![p].winner = first_monster[p].id]
                /\ pc' = [pc EXCEPT ![p] = "save"]
           ELSE /\ pc' = [pc EXCEPT ![p] = "second_attack"]
                /\ UNCHANGED new_battle
        /\ UNCHANGED <<store, path_id, request, monster_a, monster_b, first_monster,
                       response, db_calls>>

\* The sources do not fix the build profile, and one server runs one build:
\* an overflowing subtraction panics when overflow checks are on and wraps
\* when they are off.  The profile is recorded at the first overflowing
\* subtraction, the first step at which it makes a difference.
ChecksOn == overflow_checks' = "on" /\ overflow_checks # "off"
ChecksOff == overflow_checks' = "off" /\ overflow_checks # "on"

FirstAttack(p) ==
    /\ pc[p] = "first_attack"
    /\ IF AttackOverflows(first_monster[p], second_monster[p])
       THEN (ChecksOn /\ Panic(p)) \/ (ChecksOff /\ FirstHit(p))
       ELSE FirstHit(p) /\ UNCHANGED overflow_checks

\* Mutant of SecondHit: the lowered hp is also written to the monsters table.
SecondHit_WritesBack(p) ==
    LET hp == HpAfter(second_monster[p], first_monster[p])
    IN  /\ first_monster' = [first_monster EXCEPT ![p].hp = hp]
        /\ monsters' = [monsters EXCEPT ![first_monster[p].id].hp = hp]
        /\ attacks' = [attacks EXCEPT ![p] = Append(@, "second")]
        /\ IF hp <= 0
           THEN /\ new_battle' = [new_battle EXCEPT ![p].winner = second_monster[p].id]
                /\ pc' = [pc EXCEPT ![p] = "save"]
           ELSE /\ pc' = [pc EXCEPT ![p] = "loop"]
                /\ UNCHANGED new_battle
        /\ UNCHANGED <<battles, uuids_issued, active, path_id, request, monster_a, monster_b,
                       second_monster, response, db_calls>>

\* //second monster attack
\* first_monster.hp = first_monster.hp - damage; if first_monster.hp <= 0 {..}
SecondHit(p) ==
    LET hp == HpAfter(second_monster[p], first_monster[p])
    IN  /\ first_monster' = [first_monster EXCEPT ![p].hp = hp]
        /\ attacks' = [attacks EXCEPT ![p] = Append(@, "second")]
        /\ IF hp <= 0
           THEN /\ new_battle' = [new_battle EXCEPT ![p].winner = second_monster[p].id]
                /\ pc' = [pc EXCEPT ![p] = "save"]
           ELSE /\ pc' = [pc EXCEPT ![p] = "loop"]
                /\ UNCHANGED new_battle
        /\ UNCHANGED <<store, path_id, request, monster_a, monster_b, second_monster,
                       response, db_calls>>

SecondAttack(p) ==
    /\ pc[p] = "second_attack"
    /\ IF AttackOverflows(second_monster[p], first_monster[p])
       THEN (ChecksOn /\ Panic(p)) \/ (ChecksOff /\ SecondHit(p))
       ELSE SecondHit(p) /\ UNCHANGED overflow_checks

\* //save battle: battle_repository::create_battle, then 201 with the stored row
SaveBattle(p) ==
    /\ pc[p] = "save"
    /\ LET battle == StoredBattle(new_battle[p])
       IN  /\ battles' = battles \cup {battle}
           /\ response' = [response EXCEPT ![p] = Created(battle)]
    /\ uuids_issued' = uuids_issued + 1
    /\ db_calls' = [db_calls EXCEPT ![p] = Append(@, "insert_battle")]
    /\ pc' = [pc EXCEPT ![p] = "done"]
    /\ UNCHANGED <<monsters, active, overflow_checks, path_id, request, new_battle, monster_a,
                   monster_b, first_monster, second_monster, attacks>>

create_battle(p) ==
    \/ Receive(p)
    \/ ValidateFormats(p)
    \/ GetMonsterA(p)
    \/ GetMonsterB(p)
    \/ SetTurnOrder(p)
    \/ LoopTest(p)
    \/ FirstAttack(p)
    \/ SecondAttack(p)
    \/ SaveBattle(p)

\* ------------------------------------------------- delete handler
\* #[delete("/battles/{id}")]: the ids a client puts in the path.  "b0" is the
\* id of a battle saved before the server started, "b1" the id of the first
\* battle saved since, NilUuid a well formed id of no row, "bad" no UUID.
PersistedBattle == [id |-> "b0", monster_a |-> "m1", monster_b |-> "m2", winner |-> "m1"]
PathIds == {PersistedBattle.id, GenIds[1], NilUuid, "bad"}

\* Uuid::parse_str(&id).is_ok() on the path segment
IsPathUuid(s) == s = PersistedBattle.id \/ IsUuid(s)

NoContent == [status |-> "NoContent", body |-> None]

\* what the create handler keeps on its stack
battle_locals == <<request, new_battle, monster_a, monster_b, first_monster,
                   second_monster, attacks>>

\* battles.find(battle_id).get_result::<Battle>(..) is Ok
find_battle(battle_id) == \E b \in battles : b.id = battle_id

\* The path segment is extracted and the handler starts.
ReceiveDelete(p) ==
    /\ p \in active
    /\ pc[p] = "idle"
    /\ \E id \in PathIds : path_id' = [path_id EXCEPT ![p] = id]
    /\ pc' = [pc EXCEPT ![p] = "del_validate"]
    /\ UNCHANGED <<store, overflow_checks, battle_locals, response, db_calls>>

\* if !Uuid::parse_str(&id).is_ok() { return NotFound }
DelValidate(p) ==
    /\ pc[p] = "del_validate"
    /\ IF ~IsPathUuid(path_id[p])
       THEN /\ response' = [response EXCEPT ![p] = NotFound("Battle not found")]
            /\ pc' = [pc EXCEPT ![p] = "del_done"]
       ELSE /\ pc' = [pc EXCEPT ![p] = "del_find"]
            /\ UNCHANGED response
    /\ UNCHANGED <<store, overflow_checks, path_id, battle_locals, db_calls>>

\* battle_repository::delete_battle_by_id, first statement: the row is looked
\* up; without it the repository returns None and the handler answers 404.
DelFind(p) ==
    /\ pc[p] = "del_find"
    /\ db_calls' = [db_calls EXCEPT ![p] = Append(@, "find_battle")]
    /\ IF find_battle(path_id[p])
       THEN /\ pc' = [pc EXCEPT ![p] = "del_delete"]
            /\ UNCHANGED response
       ELSE /\ response' = [response EXCEPT ![p] = NotFound("Battle not found")]
            /\ pc' = [pc EXCEPT ![p] = "del_done"]
    /\ UNCHANGED <<store, overflow_checks, path_id, battle_locals>>

\* Mutant of DelDelete: the delete statement has no filter on the id.
DelDelete_AllRows(p) ==
    /\ pc[p] = "del_delete"
    /\ battles' = {}
    /\ db_calls' = [db_calls EXCEPT ![p] = Append(@, "delete_battle")]
    /\ response' = [response EXCEPT ![p] = NoContent]
    /\ pc' = [pc EXCEPT ![p] = "del_done"]
    /\ UNCHANGED <<monsters, uuids_issued, active, overflow_checks, path_id, battle_locals>>

\* second statement: diesel::delete(battles.find(battle_id)).execute(..) gives
\* Some(count), whatever the count, and the handler answers 204.
DelDelete(p) ==
    /\ pc[p] = "del_delete"
    /\ battles' = {b \in battles : b.id # path_id[p]}
    /\ db_calls' = [db_calls EXCEPT ![p] = Append(@, "delete_battle")]
    /\ response' = [response EXCEPT ![p] = NoContent]
    /\ pc' = [pc EXCEPT ![p] = "del_done"]
    /\ UNCHANGED <<monsters, uuids_issued, active, overflow_checks, path_id, battle_locals>>

delete_battle_by_id(p) ==
    \/ ReceiveDelete(p)
    \/ DelValidate(p)
    \/ DelFind(p)
    \/ DelDelete(p)

\* ------------------------------------------------------- specifications
InitLocals ==
    /\ pc = [p \in Procs |-> "idle"]
    /\ request = [p \in Procs |-> None]
    /\ path_id = [p \in Procs |-> None]
    /\ new_battle = [p \in Procs |-> None]
    /\ monster_a = [p \in Procs |-> None]
    /\ monster_b = [p \in Procs |-> None]
    /\ first_monster = [p \in Procs |-> None]
    /\ second_monster = [p \in Procs |-> None]
    /\ response = [p \in Procs |-> None]
    /\ db_calls = [p \in Procs |-> <<>>]
    /\ attacks = [p \in Procs |-> <<>>]

InitStore(stats) ==
    /\ \E s1 \in stats, s2 \in stats :
         monsters = ("m1" :> Monster("m1", s1)) @@ ("m2" :> Monster("m2", s2))
    /\ battles = {}
    /\ uuids_issued = 0
    /\ overflow_checks = "unset"

\* One request against any two stored monsters.
Init == InitStore(Stats) /\ active = {1} /\ InitLocals

Next == \E p \in Procs : create_battle(p)

Spec == Init /\ [][Next]_vars

\* A request handler is a task the actix worker runs to completion: a step of
\* it that stays enabled is eventually taken.
Fairness == \A p \in Procs : WF_vars(create_battle(p))

\* One request against two stored monsters whose stats are all >= 0.
NonNegStats == {s \in Stats : s.attack >= 0 /\ s.defense >= 0 /\ s.hp >= 0 /\ s.speed >= 0}
InitNonNeg == InitStore(NonNegStats) /\ active = {1} /\ InitLocals
FairSpec == InitNonNeg /\ [][Next]_vars /\ Fairness

\* Two requests at the same time against the same two stored monsters.
ConcStats == {s \in Stats : s.defense = 0 /\ s.attack \in {1, MaxAttack} /\ s.hp \in {0, MaxHp}}
InitConc == InitStore(ConcStats) /\ active = Procs /\ InitLocals
SpecConc == InitConc /\ [][Next]_vars

\* Two requests at the same time, each a create or a delete, on a store that
\* already holds one battle.
ApiStats == {s \in ConcStats : s.hp = MaxHp /\ s.speed = 0}
InitApi ==
    /\ \E s1 \in ApiStats, s2 \in ApiStats :
         monsters = ("m1" :> Monster("m1", s1)) @@ ("m2" :> Monster("m2", s2))
    /\ battles = {PersistedBattle}
    /\ uuids_issued = 0
    /\ overflow_checks = "unset"
    /\ active = Procs
    /\ InitLocals
NextApi == \E p \in Procs : create_battle(p) \/ delete_battle_by_id(p)
SpecApi == InitApi /\ [][NextApi]_vars

\* ------------------------------------------------------------ vocabulary
Saved(p) == pc[p] = "done" /\ response[p] # None /\ response[p].status = "Created"
Rejected(p) == pc[p] = "done" /\ response[p] # None /\ response[p].status = "NotFound"
Finished(p) == pc[p] \in {"done", "panicked"}
\* both monsters were found: the handler is at or past the turn order
Fetched(p) == monster_a[p] # None /\ monster_b[p] # None
Ordered(p) == first_monster[p] # None
Max0(x) == IF x > 0 THEN x ELSE 0

\* ------------------------------------------------------------------ C1
\* C1 (as claimed): the winner stored in every battle record is the id of one
\* of its two monsters, never empty and never another value.
C1_WinnerIsParticipant ==
    \A b \in battles : b.winner \in {b.monster_a, b.monster_b}

\* ------------------------------------------------------------------ C2
\* C2 (as claimed): when a monster starts the battle with hp <= 0, the
\* request still ends with a saved battle whose winner is the opposing
\* monster (one of the two when both start with hp <= 0).
C2_DegenerateHpOpponentWins ==
    \A p \in Procs :
        Saved(p) /\ (monster_a[p].hp <= 0 \/ monster_b[p].hp <= 0) =>
            LET w == response[p].body.winner
            IN  /\ monster_a[p].hp <= 0 /\ monster_b[p].hp > 0 => w = monster_b[p].id
                /\ monster_b[p].hp <= 0 /\ monster_a[p].hp > 0 => w = monster_a[p].id
                /\ w \in {monster_a[p].id, monster_b[p].id}

\* ------------------------------------------------------------------ C3
\* C3: for two monsters whose attack, defense, speed and hp are all >= 0 the
\* battle loop terminates, and the attacks made by both actors together are
\* at most hp_first + hp_second, the starting hp of the two actors (the
\* attacks made plus the hp still left never exceed that sum).
InLoop(p) == pc[p] \in {"loop", "first_attack", "second_attack"}
AttackBound(p) ==
    LET o == TurnOrder(monster_a[p], monster_b[p])
    IN  Len(attacks[p]) + Max0(first_monster[p].hp) + Max0(second_monster[p].hp)
            <= o[1].hp + o[2].hp

C3_TerminatesWithinHpSum ==
    /\ [](\A p \in Procs : Ordered(p) => AttackBound(p))
    /\ <>[](\A p \in Procs : ~InLoop(p))

\* a battle of non-negative stats that took more than one round and was saved
C3_Witness ==
    \E p \in Procs : Saved(p) /\ Len(attacks[p]) >= 3
        /\ Len(attacks[p]) + 1 = monster_a[p].hp + monster_b[p].hp

\* ------------------------------------------------------------------ C4
\* C4: the monster with strictly higher speed is the first actor; with equal
\* speeds the monster with strictly higher attack is the first actor; in
\* both argument orders.
IsOrder(p, f, s) == first_monster[p].id = f.id /\ second_monster[p].id = s.id

C4_TurnOrder ==
    \A p \in Procs : Ordered(p) =>
        LET a == monster_a[p]
            b == monster_b[p]
        IN  /\ a.speed > b.speed => IsOrder(p, a, b)
            /\ b.speed > a.speed => IsOrder(p, b, a)
            /\ a.speed = b.speed /\ a.attack > b.attack => IsOrder(p, a, b)
            /\ a.speed = b.speed /\ b.attack > a.attack => IsOrder(p, b, a)

\* equal speeds, monster_b has the higher attack and acts first
C4_Witness ==
    \E p \in Procs : Ordered(p)
        /\ monster_a[p].speed = monster_b[p].speed
        /\ monster_b[p].attack > monster_a[p].attack
        /\ first_monster[p].id = monster_b[p].id
        /\ first_monster[p].id # second_monster[p].id

\* ------------------------------------------------------------------ C5
\* C5 (as claimed): every attack made in the battle loop lowers the target's
\* local hp by exactly max(attack - defense, 1) computed on the integers:
\* by attack - defense when the attacker's attack exceeds the target's
\* defense, and by 1 otherwise.
LowersByMaxDiffOne(attacker, target, hp_after) ==
    IF attacker.attack > target.defense
    THEN hp_after + attacker.attack = target.hp + target.defense
    ELSE hp_after + 1 = target.hp

C5_DamageIsMaxDiffOne ==
    [][\A p \in Procs :
        /\ attacks'[p] = Append(attacks[p], "first") =>
             LowersByMaxDiffOne(first_monster[p], second_monster[p], second_monster'[p].hp)
        /\ attacks'[p] = Append(attacks[p], "second") =>
             LowersByMaxDiffOne(second_monster[p], first_monster[p], first_monster'[p].hp)
      ]_vars

\* ------------------------------------------------------------------ C6
\* C6: no step of a create_battle request changes a stored monster row; the
\* stored hp of both participants stays what it was before the battle.
C6_NoStatLeakage == [][monsters' = monsters]_vars

\* a battle was saved after the local copy of a participant lost hp that its
\* stored row still has
C6_Witness ==
    \E p \in Procs : Saved(p)
        /\ second_monster[p].hp < monsters[second_monster[p].id].hp
        /\ monsters[monster_a[p].id] = monster_a[p]
        /\ monsters[monster_b[p].id] = monster_b[p]

\* ------------------------------------------------------------------ C7
\* C7: when monster_a or monster_b of a request is a well-formed id that no
\* stored monster has, the request is answered "not found", the battle loop
\* is never run for it and it inserts no battle: the battle table is
\* unchanged and no battle row ever names an id without a monster.
Range(f) == {f[i] : i \in DOMAIN f}
Dangling(id) == IsUuid(id) /\ id \notin DOMAIN monsters

C7_DanglingNotFound ==
    /\ \A p \in Procs :
         request[p] # None
         /\ (Dangling(request[p].monster_a) \/ Dangling(request[p].monster_b)) =>
            /\ pc[p] \in {"validate", "get_a", "get_b", "done"}
            /\ pc[p] = "done" => Rejected(p)
            /\ ~Ordered(p) /\ attacks[p] = <<>>
            /\ "insert_battle" \notin Range(db_calls[p])
            /\ active = {p} => battles = {}
    /\ \A b \in battles : ~Dangling(b.monster_a) /\ ~Dangling(b.monster_b)

\* monster_a exists, monster_b is well formed and missing: both lookups were
\* made and the answer is "Monster b not found"
C7_Witness ==
    \E p \in Procs : Rejected(p)
        /\ request[p].monster_a \in DOMAIN monsters
        /\ Dangling(request[p].monster_b)
        /\ db_calls[p] = <<"get_monster", "get_monster">>
        /\ response[p].body = "Monster b not found"
        /\ battles = {}

\* ------------------------------------------------------------------ C8
\* C8: when monster_a or monster_b of a request is not a well-formed UUID,
\* the request is rejected before any store access: it makes no monster
\* lookup and no battle insert, also when the other id exists.
C8_MalformedRejectedBeforeStore ==
    \A p \in Procs :
        request[p] # None
        /\ (~IsUuid(request[p].monster_a) \/ ~IsUuid(request[p].monster_b)) =>
            /\ db_calls[p] = <<>>
            /\ pc[p] \in {"validate", "done"}
            /\ pc[p] = "done" => Rejected(p)

\* monster_a exists, monster_b is malformed: rejected without a store access
C8_Witness ==
    \E p \in Procs : Rejected(p)
        /\ request[p].monster_a \in DOMAIN monsters
        /\ ~IsUuid(request[p].monster_b)
        /\ db_calls[p] = <<>>
        /\ response[p].body = "Monster b not found"

\* ------------------------------------------------------------------ C9
\* C9 (as claimed): every request that passes validation (both monsters
\* found) ends having inserted exactly one battle row, which is returned to
\* the caller, has a store-generated id (not the id of the request body), the
\* requested monster_a and monster_b, and as winner the winner computed by
\* the battle loop (the actor that made the last attack); a rejected request
\* inserts none.
Inserts(p) == Cardinality({i \in DOMAIN db_calls[p] : db_calls[p][i] = "insert_battle"})
LoopWinner(p) ==
    IF attacks[p][Len(attacks[p])] = "first" THEN first_monster[p].id
    ELSE second_monster[p].id

C9_OneRecordPerResolution ==
    \A p \in Procs : Finished(p) =>
        IF Fetched(p)
        THEN /\ Saved(p)
             /\ Inserts(p) = 1
             /\ response[p].body \in battles
             /\ response[p].body.id \in Range(GenIds)
             /\ response[p].body.id # request[p].id
             /\ response[p].body.monster_a = request[p].monster_a
             /\ response[p].body.monster_b = request[p].monster_b
             /\ attacks[p] # <<>>
             /\ response[p].body.winner = LoopWinner(p)
        ELSE Inserts(p) = 0 /\ Rejected(p)

\* ------------------------------------------------------------------ C10
\* C10: however the steps of concurrent create_battle requests interleave,
\* each request that saves a battle saves the winner that the same request
\* would save if it ran alone on the stored monsters.
C10_ConcurrentSameAsAlone ==
    \A p \in Procs : Saved(p) =>
        /\ response[p].body \in battles
        /\ response[p].body.winner =
             ResolveAlone(monsters[request[p].monster_a],
                          monsters[request[p].monster_b], request[p].winner)

\* two requests naming the same two monsters in opposite orders, whose battle
\* loops ran interleaved, saved the same winner
C10_Witness ==
    /\ Saved(1) /\ Saved(2)
    /\ request[1].monster_a = request[2].monster_b
    /\ request[1].monster_b = request[2].monster_a
    /\ request[1].monster_a # request[1].monster_b
    /\ Len(attacks[1]) >= 2 /\ Len(attacks[2]) >= 2
    /\ response[1].body.id = "b2" /\ response[2].body.id = "b1"
    /\ response[1].body.winner = response[2].body.winner

\* ------------------------------------------------------------------ C11
\* C11 (as claimed): two create_battle requests that name the same monster_a
\* and monster_b and read identical rows for them save the same winner.
C11_Determinism ==
    \A p \in Procs, q \in Procs :
        /\ Saved(p) /\ Saved(q)
        /\ request[p].monster_a = request[q].monster_a
        /\ request[p].monster_b = request[q].monster_b
        /\ monster_a[p] = monster_a[q] /\ monster_b[p] = monster_b[q]
        => response[p].body.winner = response[q].body.winner

\* ------------------------------------------------------------------ C12
\* C12 (as claimed): every subtraction of the battle loop, attack - defense
\* and hp - damage, stays inside the i32 range, so that no attack overflows
\* and no request ends in an overflow panic.
C12_NoOverflow ==
    \A p \in Procs :
        /\ pc[p] = "first_attack" => ~AttackOverflows(first_monster[p], second_monster[p])
        /\ pc[p] = "second_attack" => ~AttackOverflows(second_monster[p], first_monster[p])
        /\ pc[p] # "panicked"

\* ------------------------------------------------------------------ C14
\* C14 (as claimed): the turn order is fixed once before the loop; the first
\* attack is made by the first actor and no actor attacks twice in a row;
\* and in every round the second actor attacks exactly once unless the first
\* actor's attack of that round already brought the second actor's hp to
\* <= 0 (a round in which only the first actor has attacked is either still
\* waiting for the second actor's attack or has ended the battle).
Alternates(log) ==
    \A i \in 1..Len(log) : log[i] = IF i % 2 = 1 THEN "first" ELSE "second"
OrderKept(p) ==
    LET o == TurnOrder(monster_a[p], monster_b[p])
    IN  /\ [first_monster[p] EXCEPT !.hp = o[1].hp] = o[1]
        /\ [second_monster[p] EXCEPT !.hp = o[2].hp] = o[2]

C14_StrictAlternation ==
    \A p \in Procs : Ordered(p) =>
        /\ OrderKept(p)
        /\ Alternates(attacks[p])
        /\ pc[p] = "second_attack" => Len(attacks[p]) % 2 = 1
        /\ Len(attacks[p]) % 2 = 1 /\ pc[p] # "second_attack" => second_monster[p].hp <= 0

\* ------------------------------------------------------------------ C15
\* C15: when the two monsters have equal speed and equal attack, the monster
\* passed as monster_b is the first actor and monster_a the second.
C15_FullTieSecondInputFirst ==
    \A p \in Procs :
        Ordered(p) /\ monster_a[p].speed = monster_b[p].speed
                   /\ monster_a[p].attack = monster_b[p].attack =>
            /\ [first_monster[p] EXCEPT !.hp = monster_b[p].hp] = monster_b[p]
            /\ [second_monster[p] EXCEPT !.hp = monster_a[p].hp] = monster_a[p]

\* two different monsters in a full tie: monster_b acts first
C15_Witness ==
    \E p \in Procs : Ordered(p)
        /\ monster_a[p].id # monster_b[p].id
        /\ monster_a[p].speed = monster_b[p].speed
        /\ monster_a[p].attack = monster_b[p].attack
        /\ first_monster[p].id = monster_b[p].id
        /\ attacks[p] # <<>> /\ attacks[p][1] = "first"

\* ------------------------------------------------------------------ C16
\* C16: when both monsters start with hp > 0, the battle goes on only while
\* both local hp are > 0, so no actor with hp <= 0 ever attacks and the
\* battle ends at the first attack that brings its target to hp <= 0; once
\* the loop has ended the winner is the actor that made the last attack, its
\* local hp is > 0 and the other actor's is <= 0.
BothAlive(p) == first_monster[p].hp > 0 /\ second_monster[p].hp > 0
LastAttackWon(p) ==
    /\ attacks[p] # <<>>
    /\ new_battle[p].winner = LoopWinner(p)
    /\ IF attacks[p][Len(attacks[p])] = "first"
       THEN first_monster[p].hp > 0 /\ second_monster[p].hp <= 0
       ELSE second_monster[p].hp > 0 /\ first_monster[p].hp <= 0

C16_WinCondition ==
    \A p \in Procs :
        Ordered(p) /\ monster_a[p].hp > 0 /\ monster_b[p].hp > 0 =>
            /\ pc[p] \in {"loop", "first_attack", "second_attack", "panicked"} => BothAlive(p)
            /\ pc[p] \in {"save", "done"} => LastAttackWon(p)
            /\ pc[p] = "done" => response[p].body.winner = LoopWinner(p)

\* the second actor survived the first attack and won with its own
C16_Witness ==
    \E p \in Procs : Saved(p)
        /\ monster_a[p].hp > 0 /\ monster_b[p].hp > 0
        /\ attacks[p] = <<"first", "second">>
        /\ response[p].body.winner = second_monster[p].id
        /\ first_monster[p].hp <= 0 /\ second_monster[p].hp > 0
        /\ first_monster[p].id # second_monster[p].id

\* ------------------------------------------------------------------ C13
\* C13: a step of delete_battle_by_id never changes a monster row and never
\* changes or removes a battle row whose id is not the one in the path.  A
\* malformed id is answered NotFound without any store access; an id that the
\* lookup does not find is answered NotFound with the store unchanged; an id
\* that the lookup finds is deleted: after the delete statement no row has
\* that id and the answer is NoContent.
DelStep(p) == pc[p] \in {"del_validate", "del_find", "del_delete"} /\ pc'[p] # pc[p]
Answers(p, r) == pc'[p] = "del_done" /\ response'[p] = r
C13_DeleteStep(p) ==
    /\ monsters' = monsters
    /\ battles' \subseteq battles
    /\ \A b \in battles : b.id # path_id[p] => b \in battles'
    /\ pc[p] = "del_validate" =>
         /\ battles' = battles /\ db_calls'[p] = <<>>
         /\ IF IsPathUuid(path_id[p])
            THEN pc'[p] = "del_find"
            ELSE Answers(p, NotFound("Battle not found"))
    /\ pc[p] = "del_find" =>
         /\ battles' = battles
         /\ IF find_battle(path_id[p])
            THEN pc'[p] = "del_delete"
            ELSE Answers(p, NotFound("Battle not found"))
    /\ pc[p] = "del_delete" =>
         /\ \A b \in battles' : b.id # path_id[p]
         /\ Answers(p, NoContent)
C13_DeleteFrame == [][\A p \in Procs : DelStep(p) => C13_DeleteStep(p)]_vars
\* the first battle saved since the start was deleted again; the battle that
\* was there before is still there
C13_Witness ==
    \E p \in Procs :
        /\ pc[p] = "del_done" /\ response[p] = NoContent
        /\ path_id[p] = GenIds[1]
        /\ db_calls[p] = <<"find_battle", "delete_battle">>
        /\ battles = {PersistedBattle}
        /\ uuids_issued = 1

====
